---- MODULE Spec2Model ----
(***************************************************************************)
(* Student Course Management API: the three tables (student, course,       *)
(* enrollment), the request schemas of schemas.py and the handlers of      *)
(* main.py.                                                                *)
(*                                                                         *)
(* A handler that writes is two steps: its pre-checks (the reads up to the *)
(* construction of the row) and its commit (session.commit() and the       *)
(* response).  Requests are served by Workers; a commit of one worker may  *)
(* fall between the pre-checks and the commit of another, which is what    *)
(* several server processes sharing one database do.  A handler that only  *)
(* reads is one step.                                                      *)
(***************************************************************************)
EXTENDS Integers, Sequences, FiniteSets, TLC

(***************************************************************************)
(* Bounds of the model.                                                    *)
(***************************************************************************)
\* datetime.utcnow() is read at most this many times in a run of the
\* specification that names the bound
MaxTime == 3
EnrollMaxTime == 4
ListMaxTime == 4
ValidMaxTime == 3
RaceStudentMaxTime == 3
RaceEnrollMaxTime == 4
NoDeleteMaxTime == 3
\* ids a request may name are 1..MaxReqId
MaxReqId == 2
\* skip and limit of a list request are 0..MaxPage
MaxPage == 2

Workers == {1, 2}

(***************************************************************************)
(* Values.  None is Null; a value that may be None is Null or Val(x); a    *)
(* field of an update body may also be Unset (absent from the JSON).       *)
(***************************************************************************)
Null == [k |-> "null"]
Unset == [k |-> "unset"]
Val(x) == [k |-> "val", v |-> x]

Max(S) == CHOOSE x \in S : \A y \in S : y <= x
Min2(a, b) == IF a <= b THEN a ELSE b
Max2(a, b) == IF a >= b THEN a ELSE b

RECURSIVE Rep(_, _)
Rep(s, n) ==
    IF n = 0 THEN ""
    ELSE LET h == Rep(s, n \div 2)
         IN  IF n % 2 = 0 THEN h \o h ELSE h \o h \o s

(***************************************************************************)
(* Field bounds of schemas.py.                                             *)
(***************************************************************************)
NameMaxLen == 100
TitleMaxLen == 200
DescriptionMaxLen == 1000
InstructorMaxLen == 100
GradeMaxLen == 2
AgeMin == 1
AgeMax == 150
CreditsMin == 1
CreditsMax == 10

\* Field(min_length=lo, max_length=hi) on a str
StrBetween(s, lo, hi) == lo <= Len(s) /\ Len(s) <= hi
\* Field(ge=lo, le=hi) on an int
IntBetween(n, lo, hi) == lo <= n /\ n <= hi

(***************************************************************************)
(* EmailStr.  An address is a sequence of characters.  It is accepted when *)
(* it has exactly one "@", a non-empty local part and a domain of at least *)
(* two non-empty labels; the accepted value is the normalised address: the *)
(* local part as given, the domain in lower case.                          *)
(***************************************************************************)
Lower(c) ==
    CASE c = "A" -> "a"
      [] c = "B" -> "b"
      [] c = "C" -> "c"
      [] OTHER -> c

Positions(s, c) == {i \in 1..Len(s) : s[i] = c}

ValidEmail(s) ==
    /\ Cardinality(Positions(s, "@")) = 1
    /\ LET at == CHOOSE i \in Positions(s, "@") : TRUE
           dots == {i \in Positions(s, ".") : i > at}
       IN  /\ at > 1
           /\ dots # {}
           /\ at + 1 \notin dots
           /\ Len(s) \notin dots
           /\ \A i \in dots : i + 1 \notin dots

NormalizeEmail(s) ==
    LET at == CHOOSE i \in Positions(s, "@") : TRUE
    IN  [i \in 1..Len(s) |-> IF i > at THEN Lower(s[i]) ELSE s[i]]

(***************************************************************************)
(* Schemas: what a body must satisfy, and the value the handler receives.  *)
(***************************************************************************)
\* an Optional field of an update schema: None passes, a value is checked
OptOk(f, Ok(_)) == IF f.k = "val" THEN Ok(f.v) ELSE TRUE

ValidName(s) == StrBetween(s, 1, NameMaxLen)
\* age with ge=0 in place of ge=1
ValidAgeFromZero(n) == IntBetween(n, 0, AgeMax)

ValidAge(n) == IntBetween(n, AgeMin, AgeMax)
ValidTitle(s) == StrBetween(s, 1, TitleMaxLen)
ValidDescription(s) == StrBetween(s, 0, DescriptionMaxLen)
\* credits with le=11 in place of le=10
ValidCreditsToEleven(n) == IntBetween(n, CreditsMin, CreditsMax + 1)

ValidCredits(n) == IntBetween(n, CreditsMin, CreditsMax)
ValidInstructor(s) == StrBetween(s, 1, InstructorMaxLen)
ValidGrade(s) == StrBetween(s, 0, GradeMaxLen)

ValidStudentCreate(b) ==
    /\ ValidName(b.name)
    /\ ValidEmail(b.email)
    /\ ValidAge(b.age)

ParseStudentCreate(b) ==
    [name |-> b.name, email |-> NormalizeEmail(b.email), age |-> b.age]

ValidStudentUpdate(b) ==
    /\ OptOk(b.name, ValidName)
    /\ OptOk(b.email, ValidEmail)
    /\ OptOk(b.age, ValidAge)

ParseStudentUpdate(b) ==
    [b EXCEPT !.email = IF b.email.k = "val"
                        THEN Val(NormalizeEmail(b.email.v)) ELSE b.email]

ValidCourseCreate(b) ==
    /\ ValidTitle(b.title)
    /\ OptOk(b.description, ValidDescription)
    /\ ValidCredits(b.credits)
    /\ ValidInstructor(b.instructor)

ValidCourseUpdate(b) ==
    /\ OptOk(b.title, ValidTitle)
    /\ OptOk(b.description, ValidDescription)
    /\ OptOk(b.credits, ValidCredits)
    /\ OptOk(b.instructor, ValidInstructor)

ValidEnrollmentCreate(b) == OptOk(b.grade, ValidGrade)

ValidEnrollmentUpdate(b) == OptOk(b.grade, ValidGrade)

\* EnrollmentUpdate with extra="allow": the fields it does not declare are kept
ParseEnrollmentUpdateAllowExtra(b) == b

\* EnrollmentUpdate declares grade alone: the other fields of a body are
\* ignored
ParseEnrollmentUpdate(b) == [grade |-> b.grade]

\* model_dump(exclude_none=True): a field set to None is left out as well
DumpExcludeNone(b) ==
    LET set == {f \in DOMAIN b : b[f].k = "val"}
    IN  [f \in set |-> b[f]]

\* model_dump() without exclude_unset: the fields left out are dumped as None
DumpWithUnset(b) ==
    [f \in DOMAIN b |-> IF b[f].k = "unset" THEN Null ELSE b[f]]

\* model_dump(exclude_unset=True): the fields the body carries, None included
DumpExcludeUnset(b) ==
    LET set == {f \in DOMAIN b : b[f].k # "unset"}
    IN  [f \in set |-> b[f]]

(***************************************************************************)
(* The store.  A table maps the ids of its rows to the rows.               *)
(***************************************************************************)
EmptyTable == [i \in {} |-> Null]

\* session.get(Model, id): the row, or nothing
Get(tbl, id) == IF id \in DOMAIN tbl THEN <<tbl[id]>> ELSE <<>>

\* an id allocator that counts the rows: one more than their number
NextIdOfCount(tbl) == Cardinality(DOMAIN tbl) + 1

\* an id allocator that hands out the smallest id not in the table
NextIdLowestFree(tbl) ==
    CHOOSE i \in 1..(Cardinality(DOMAIN tbl) + 1) :
        /\ i \notin DOMAIN tbl
        /\ \A j \in 1..(i - 1) : j \in DOMAIN tbl

\* INTEGER PRIMARY KEY: one more than the largest id in the table
NextId(tbl) == IF DOMAIN tbl = {} THEN 1 ELSE Max(DOMAIN tbl) + 1

Put(tbl, row) ==
    [i \in DOMAIN tbl \cup {row.id} |-> IF i = row.id THEN row ELSE tbl[i]]

\* a DELETE that removes the row and every row after it
RemoveFrom(tbl, id) == [i \in {j \in DOMAIN tbl : j < id} |-> tbl[i]]

\* a DELETE that removes no row
RemoveNothing(tbl, id) == tbl

Remove(tbl, id) == [i \in DOMAIN tbl \ {id} |-> tbl[i]]

\* select(Model): the rows in the order of the table scan, by ascending id
RECURSIVE ScanFrom(_, _)
ScanFrom(tbl, ids) ==
    IF ids = {} THEN <<>>
    ELSE LET lo == CHOOSE i \in ids : \A j \in ids : i <= j
         IN  <<tbl[lo]>> \o ScanFrom(tbl, ids \ {lo})

Scan(tbl) == ScanFrom(tbl, DOMAIN tbl)

Filter(rows, Keep(_)) == SelectSeq(rows, Keep)

\* .offset(skip).limit(limit) on the rows of a query
RECURSIVE Offset(_, _)
Offset(rows, skip) ==
    IF skip <= 0 \/ rows = <<>> THEN rows ELSE Offset(Tail(rows), skip - 1)

RECURSIVE Limit(_, _)
Limit(rows, limit) ==
    IF limit = 0 \/ rows = <<>> THEN <<>>
    ELSE <<Head(rows)>> \o Limit(Tail(rows), limit - 1)

VARIABLES
    students,     \* table student
    courses,      \* table course
    enrollments,  \* table enrollment
    now,          \* the clock: the last value datetime.utcnow() returned
    pend,         \* per worker: the request between its pre-checks and its commit
    last          \* the response sent most recently, with its request

vars == <<students, courses, enrollments, now, pend, last>>
store == <<students, courses, enrollments>>

Idle == [op |-> "idle"]

Init ==
    /\ students = EmptyTable
    /\ courses = EmptyTable
    /\ enrollments = EmptyTable
    /\ now = 0
    /\ pend = [w \in Workers |-> Idle]
    /\ last = [op |-> "none", w |-> 0, status |-> 0, via |-> "none",
               detail |-> "", req |-> [id |-> 0], body |-> <<>>,
               pre |-> <<EmptyTable, EmptyTable, EmptyTable>>]

\* the response of worker w to request req of operation op; pre is the store
\* as it was when the step that answers began
Respond(w, op, req, status, via, detail, body) ==
    last' = [op |-> op, w |-> w, status |-> status, via |-> via,
             detail |-> detail, req |-> req, body |-> body, pre |-> store]

\* a successful response of a handler that stamps the rows of student with
\* the time of the request
AnswerStamping(w, op, req, status, body) ==
    /\ Respond(w, op, req, status, "read", "", body)
    /\ students' = [i \in DOMAIN students |->
                       [students[i] EXCEPT !.updated_at = now + 1]]
    /\ UNCHANGED <<courses, enrollments, now, pend>>

\* a successful response that leaves everything else as it is
Answer(w, op, req, status, body) ==
    /\ Respond(w, op, req, status, "read", "", body)
    /\ UNCHANGED <<store, now, pend>>

\* raise HTTPException(status_code=status, detail=detail) before any write
Reject(w, op, req, status, via, detail) ==
    /\ Respond(w, op, req, status, via, detail, <<>>)
    /\ UNCHANGED <<store, now, pend>>

\* session.commit() went through: the response carries the refreshed row
Committed(w, op, req, status, body) ==
    Respond(w, op, req, status, "commit", "", body)

\* session.commit() raised: session.rollback(), then the handler's HTTPException
Failed(w, op, req, err) ==
    Respond(w, op, req, err.status, "commit", err.detail, <<>>)

\* a body the schema refuses never reaches the handler
Unprocessable(w, op, req) ==
    Reject(w, op, req, 422, "validation", "validation error")

\* the pre-checks passed: the request waits for its commit
Proceed(w, p) ==
    /\ pend' = [pend EXCEPT ![w] = p]
    /\ UNCHANGED <<store, last>>

(***************************************************************************)
(* What the database enforces.  row holds the column values of the         *)
(* statement (Null or Val), id is the row written.  Table student: NOT     *)
(* NULL on name, email and age, UNIQUE on email.  Table course: NOT NULL   *)
(* on title, credits and instructor.  Table enrollment: NOT NULL on        *)
(* student_id and course_id; its foreign keys are declared and not         *)
(* enforced, and no constraint spans (student_id, course_id).              *)
(***************************************************************************)
StudentColumns == {"name", "email", "age"}
CourseColumns == {"title", "description", "credits", "instructor"}
EnrollmentColumns == {"student_id", "course_id", "grade"}

\* the student table without its UNIQUE index on email
StudentIntegrityNoUnique(tbl, id, row) ==
    \A f \in StudentColumns : row[f].k = "val"

StudentIntegrityOk(tbl, id, row) ==
    /\ \A f \in StudentColumns : row[f].k = "val"
    /\ \A j \in DOMAIN tbl \ {id} : tbl[j].email # row.email.v

CourseIntegrityOk(tbl, id, row) ==
    \A f \in CourseColumns \ {"description"} : row[f].k = "val"

EnrollmentIntegrityOk(tbl, id, row) ==
    \A f \in EnrollmentColumns \ {"grade"} : row[f].k = "val"

\* select(Student).where(Student.email == email).first()
StudentByEmail(tbl, email) ==
    Filter(Scan(tbl), LAMBDA r : r.email = email)

\* the pair lookup that finds no row
EnrollmentByPairNone(tbl, sid, cid) == <<>>

\* select(Enrollment).where(student_id == sid, course_id == cid).first()
EnrollmentByPair(tbl, sid, cid) ==
    Filter(Scan(tbl), LAMBDA r : r.student_id = sid /\ r.course_id = cid)

\* the list-by-student query without its where clause
EnrollmentsOfAnyStudent(tbl, sid) == Scan(tbl)

\* select(Enrollment).where(Enrollment.student_id == sid).all()
EnrollmentsOfStudent(tbl, sid) ==
    Filter(Scan(tbl), LAMBDA r : r.student_id = sid)

\* select(Enrollment).where(Enrollment.course_id == cid).all()
EnrollmentsOfCourse(tbl, cid) ==
    Filter(Scan(tbl), LAMBDA r : r.course_id = cid)

\* the value of attribute f of a loaded row, as Null or Val
Attr(cur, f) ==
    IF f \in {"description", "grade"} THEN cur[f] ELSE Val(cur[f])

\* the columns of an UPDATE: the attributes set to a value other than the loaded one
Changes(cur, data) ==
    LET ch == {f \in DOMAIN data : data[f] # Attr(cur, f)}
    IN  [f \in ch |-> data[f]]

\* the column values of row cur after an UPDATE of the columns of ch
Written(cur, ch, cols) ==
    [f \in cols |-> IF f \in DOMAIN ch THEN ch[f] ELSE Attr(cur, f)]

\* a rollback that undoes the column that broke the constraint and keeps the
\* other columns of the UPDATE
RollbackKeepsValues(tbl, id, ch) ==
    [tbl EXCEPT ![id] =
        [f \in DOMAIN @ |->
            IF f \notin DOMAIN ch THEN @[f]
            ELSE IF f \in {"description", "grade"} THEN ch[f]
            ELSE IF ch[f].k = "val" THEN ch[f].v
            ELSE @[f]]]

\* session.rollback() after an UPDATE of the columns ch of row id that the
\* store refused: the table as it was
Rollback(tbl, id, ch) == tbl

(***************************************************************************)
(* What a handler answers when session.commit() raises: IntegrityError     *)
(* where the handler catches it, any other exception otherwise.            *)
(***************************************************************************)
\* create_student without its except IntegrityError clause
CreateStudentIntegrityUncaught ==
    [status |-> 500, detail |-> "An error occurred while creating the student"]

CreateStudentIntegrityError ==
    [status |-> 400,
     detail |-> "Failed to create student. Email may already exist."]

UpdateStudentIntegrityError ==
    [status |-> 400,
     detail |-> "Failed to update student. Email may already exist."]

UpdateStudentError ==
    [status |-> 500, detail |-> "An error occurred while updating the student"]

CreateCourseError ==
    [status |-> 500, detail |-> "An error occurred while creating the course"]

UpdateCourseError ==
    [status |-> 500, detail |-> "An error occurred while updating the course"]

CreateEnrollmentError ==
    [status |-> 500,
     detail |-> "An error occurred while creating the enrollment"]

UpdateEnrollmentError ==
    [status |-> 500,
     detail |-> "An error occurred while updating the enrollment"]

(***************************************************************************)
(* GET /                                                                   *)
(***************************************************************************)
ReadRoot(w, I) ==
    /\ pend[w] = Idle
    /\ Answer(w, "read_root", [id |-> 0], 200, <<>>)

(***************************************************************************)
(* POST /students/                                                         *)
(***************************************************************************)
CreateStudentBegin(w, I) ==
    /\ pend[w] = Idle
    /\ \E b \in I.sc :
        LET req == [id |-> 0, data |-> b] IN
        IF ~ValidStudentCreate(b)
        THEN Unprocessable(w, "create_student", req)
        ELSE IF StudentByEmail(students, ParseStudentCreate(b).email) # <<>>
        THEN Reject(w, "create_student", req, 400, "precheck",
                    "Email already registered")
        ELSE /\ now < I.tmax
             /\ now' = now + 1
             /\ Proceed(w, [op |-> "create_student", req |-> req,
                            data |-> ParseStudentCreate(b), t |-> now + 1])

CreateStudentCommit(w) ==
    /\ pend[w].op = "create_student"
    /\ LET p == pend[w]
           row == [f \in StudentColumns |-> Val(p.data[f])]
           new == [id |-> NextId(students), name |-> p.data.name,
                   email |-> p.data.email, age |-> p.data.age,
                   created_at |-> p.t, updated_at |-> p.t]
       IN  IF StudentIntegrityOk(students, new.id, row)
           THEN /\ students' = Put(students, new)
                /\ Committed(w, "create_student", p.req, 201, <<new>>)
           ELSE /\ students' = students
                /\ Failed(w, "create_student", p.req,
                          CreateStudentIntegrityError)
    /\ pend' = [pend EXCEPT ![w] = Idle]
    /\ UNCHANGED <<courses, enrollments, now>>

(***************************************************************************)
(* GET /students/ and GET /students/{student_id}                           *)
(***************************************************************************)
ReadStudents(w, I) ==
    /\ pend[w] = Idle
    /\ \E skip \in I.skips, limit \in I.limits :
        Answer(w, "read_students", [id |-> 0, skip |-> skip, limit |-> limit],
               200, Limit(Offset(Scan(students), skip), limit))

ReadStudent(w, I) ==
    /\ pend[w] = Idle
    /\ \E id \in I.ids :
        LET got == Get(students, id) IN
        IF got = <<>>
        THEN Reject(w, "read_student", [id |-> id], 404, "read", "Student not found")
        ELSE Answer(w, "read_student", [id |-> id], 200, got)

(***************************************************************************)
(* PUT /students/{student_id}                                              *)
(***************************************************************************)
\* the checks of update_student with the email looked up before the student:
\* not the order of the code
UpdateStudentCheckEmailFirst(got, upd) ==
    IF /\ upd.email.k = "val"
       /\ StudentByEmail(students, upd.email.v) # <<>>
       /\ (got = <<>> \/ upd.email.v # got[1].email)
    THEN [status |-> 400, detail |-> "Email already registered"]
    ELSE IF got = <<>>
    THEN [status |-> 404, detail |-> "Student not found"]
    ELSE [status |-> 0, detail |-> ""]

\* the first check that fails, status 0 when both pass
UpdateStudentCheck(got, upd) ==
    IF got = <<>>
    THEN [status |-> 404, detail |-> "Student not found"]
    ELSE IF /\ upd.email.k = "val"
            /\ upd.email.v # got[1].email
            /\ StudentByEmail(students, upd.email.v) # <<>>
    THEN [status |-> 400, detail |-> "Email already registered"]
    ELSE [status |-> 0, detail |-> ""]

UpdateStudentBegin(w, I) ==
    /\ pend[w] = Idle
    /\ \E id \in I.ids, b \in I.su :
        LET req == [id |-> id, data |-> b]
            got == Get(students, id)
            upd == ParseStudentUpdate(b)
        IN
        IF ~ValidStudentUpdate(b)
        THEN Unprocessable(w, "update_student", req)
        ELSE LET failed == UpdateStudentCheck(got, upd) IN
             IF failed.status # 0
             THEN Reject(w, "update_student", req, failed.status,
                         "precheck", failed.detail)
             ELSE /\ now < I.tmax
                  /\ now' = now + 1
                  /\ Proceed(w, [op |-> "update_student", req |-> req,
                                 ch |-> Changes(got[1], DumpExcludeUnset(upd)),
                                 t |-> now + 1])

UpdateStudentCommit(w) ==
    /\ pend[w].op = "update_student"
    /\ LET p == pend[w]
           id == p.req.id
       IN  IF id \notin DOMAIN students
           THEN \* the UPDATE matches no row: StaleDataError
                /\ students' = students
                /\ Failed(w, "update_student", p.req, UpdateStudentError)
           ELSE LET row == Written(students[id], p.ch, StudentColumns)
                    new == [id |-> id, name |-> row.name.v,
                            email |-> row.email.v, age |-> row.age.v,
                            created_at |-> students[id].created_at,
                            updated_at |-> p.t]
                IN  IF StudentIntegrityOk(students, id, row)
                    THEN /\ students' = Put(students, new)
                         /\ Committed(w, "update_student", p.req, 200,
                                      <<new>>)
                    ELSE /\ students' = Rollback(students, id, p.ch)
                         /\ Failed(w, "update_student", p.req,
                                   UpdateStudentIntegrityError)
    /\ pend' = [pend EXCEPT ![w] = Idle]
    /\ UNCHANGED <<courses, enrollments, now>>

(***************************************************************************)
(* DELETE /students/{student_id}                                           *)
(***************************************************************************)
DeleteStudentBegin(w, I) ==
    /\ pend[w] = Idle
    /\ \E id \in I.ids :
        LET req == [id |-> id] IN
        IF Get(students, id) = <<>>
        THEN Reject(w, "delete_student", req, 404, "precheck",
                    "Student not found")
        ELSE /\ Proceed(w, [op |-> "delete_student", req |-> req])
             /\ UNCHANGED now

DeleteStudentCommit(w) ==
    /\ pend[w].op = "delete_student"
    /\ students' = Remove(students, pend[w].req.id)
    /\ Committed(w, "delete_student", pend[w].req, 204, <<>>)
    /\ pend' = [pend EXCEPT ![w] = Idle]
    /\ UNCHANGED <<courses, enrollments, now>>

(***************************************************************************)
(* POST /courses/                                                          *)
(***************************************************************************)
CreateCourseBegin(w, I) ==
    /\ pend[w] = Idle
    /\ \E b \in I.cc :
        LET req == [id |-> 0, data |-> b] IN
        IF ~ValidCourseCreate(b)
        THEN Unprocessable(w, "create_course", req)
        ELSE /\ now < I.tmax
             /\ now' = now + 1
             /\ Proceed(w, [op |-> "create_course", req |-> req,
                            data |-> b, t |-> now + 1])

CreateCourseCommit(w) ==
    /\ pend[w].op = "create_course"
    /\ LET p == pend[w]
           row == [f \in CourseColumns |-> Attr(p.data, f)]
           new == [id |-> NextId(courses), title |-> p.data.title,
                   description |-> p.data.description,
                   credits |-> p.data.credits,
                   instructor |-> p.data.instructor,
                   created_at |-> p.t, updated_at |-> p.t]
       IN  IF CourseIntegrityOk(courses, new.id, row)
           THEN /\ courses' = Put(courses, new)
                /\ Committed(w, "create_course", p.req, 201, <<new>>)
           ELSE /\ courses' = courses
                /\ Failed(w, "create_course", p.req, CreateCourseError)
    /\ pend' = [pend EXCEPT ![w] = Idle]
    /\ UNCHANGED <<students, enrollments, now>>

(***************************************************************************)
(* GET /courses/ and GET /courses/{course_id}                              *)
(***************************************************************************)
ReadCourses(w, I) ==
    /\ pend[w] = Idle
    /\ \E skip \in I.skips, limit \in I.limits :
        Answer(w, "read_courses", [id |-> 0, skip |-> skip, limit |-> limit],
               200, Limit(Offset(Scan(courses), skip), limit))

ReadCourse(w, I) ==
    /\ pend[w] = Idle
    /\ \E id \in I.ids :
        LET got == Get(courses, id) IN
        IF got = <<>>
        THEN Reject(w, "read_course", [id |-> id], 404, "read", "Course not found")
        ELSE Answer(w, "read_course", [id |-> id], 200, got)

(***************************************************************************)
(* PUT /courses/{course_id}                                                *)
(***************************************************************************)
UpdateCourseBegin(w, I) ==
    /\ pend[w] = Idle
    /\ \E id \in I.ids, b \in I.cu :
        LET req == [id |-> id, data |-> b]
            got == Get(courses, id)
        IN
        IF ~ValidCourseUpdate(b)
        THEN Unprocessable(w, "update_course", req)
        ELSE IF got = <<>>
        THEN Reject(w, "update_course", req, 404, "precheck",
                    "Course not found")
        ELSE /\ now < I.tmax
             /\ now' = now + 1
             /\ Proceed(w, [op |-> "update_course", req |-> req,
                            ch |-> Changes(got[1], DumpExcludeUnset(b)),
                            t |-> now + 1])

UpdateCourseCommit(w) ==
    /\ pend[w].op = "update_course"
    /\ LET p == pend[w]
           id == p.req.id
       IN  IF id \notin DOMAIN courses
           THEN \* the UPDATE matches no row: StaleDataError
                /\ courses' = courses
                /\ Failed(w, "update_course", p.req, UpdateCourseError)
           ELSE LET row == Written(courses[id], p.ch, CourseColumns)
                    new == [id |-> id, title |-> row.title.v,
                            description |-> row.description,
                            credits |-> row.credits.v,
                            instructor |-> row.instructor.v,
                            created_at |-> courses[id].created_at,
                            updated_at |-> p.t]
                IN  IF CourseIntegrityOk(courses, id, row)
                    THEN /\ courses' = Put(courses, new)
                         /\ Committed(w, "update_course", p.req, 200,
                                      <<new>>)
                    ELSE \* IntegrityError has no handler of its own here
                         /\ courses' = Rollback(courses, id, p.ch)
                         /\ Failed(w, "update_course", p.req,
                                   UpdateCourseError)
    /\ pend' = [pend EXCEPT ![w] = Idle]
    /\ UNCHANGED <<students, enrollments, now>>

(***************************************************************************)
(* DELETE /courses/{course_id}                                             *)
(***************************************************************************)
DeleteCourseBegin(w, I) ==
    /\ pend[w] = Idle
    /\ \E id \in I.ids :
        LET req == [id |-> id] IN
        IF Get(courses, id) = <<>>
        THEN Reject(w, "delete_course", req, 404, "precheck",
                    "Course not found")
        ELSE /\ Proceed(w, [op |-> "delete_course", req |-> req])
             /\ UNCHANGED now

DeleteCourseCommit(w) ==
    /\ pend[w].op = "delete_course"
    /\ courses' = Remove(courses, pend[w].req.id)
    /\ Committed(w, "delete_course", pend[w].req, 204, <<>>)
    /\ pend' = [pend EXCEPT ![w] = Idle]
    /\ UNCHANGED <<students, enrollments, now>>

(***************************************************************************)
(* POST /enrollments/                                                      *)
(***************************************************************************)
\* the checks of create_enrollment with the course looked up first: not the
\* order of the code
CreateEnrollmentCheckCourseFirst(b) ==
    IF Get(courses, b.course_id) = <<>>
    THEN [status |-> 404, detail |-> "Course not found"]
    ELSE IF Get(students, b.student_id) = <<>>
    THEN [status |-> 404, detail |-> "Student not found"]
    ELSE IF EnrollmentByPair(enrollments, b.student_id, b.course_id) # <<>>
    THEN [status |-> 400, detail |-> "Student already enrolled in this course"]
    ELSE [status |-> 0, detail |-> ""]

\* the checks of create_enrollment without the lookup of the course
CreateEnrollmentCheckStudentOnly(b) ==
    IF Get(students, b.student_id) = <<>>
    THEN [status |-> 404, detail |-> "Student not found"]
    ELSE IF EnrollmentByPair(enrollments, b.student_id, b.course_id) # <<>>
    THEN [status |-> 400, detail |-> "Student already enrolled in this course"]
    ELSE [status |-> 0, detail |-> ""]

\* the first check that fails, status 0 when all pass
CreateEnrollmentCheck(b) ==
    IF Get(students, b.student_id) = <<>>
    THEN [status |-> 404, detail |-> "Student not found"]
    ELSE IF Get(courses, b.course_id) = <<>>
    THEN [status |-> 404, detail |-> "Course not found"]
    ELSE IF EnrollmentByPair(enrollments, b.student_id, b.course_id) # <<>>
    THEN [status |-> 400, detail |-> "Student already enrolled in this course"]
    ELSE [status |-> 0, detail |-> ""]

CreateEnrollmentBegin(w, I) ==
    /\ pend[w] = Idle
    /\ \E b \in I.ec :
        LET req == [id |-> 0, data |-> b] IN
        IF ~ValidEnrollmentCreate(b)
        THEN Unprocessable(w, "create_enrollment", req)
        ELSE LET failed == CreateEnrollmentCheck(b) IN
             IF failed.status # 0
             THEN Reject(w, "create_enrollment", req, failed.status,
                         "precheck", failed.detail)
             ELSE /\ now < I.tmax
                  /\ now' = now + 1
                  /\ Proceed(w, [op |-> "create_enrollment", req |-> req,
                                 data |-> b, t |-> now + 1])

CreateEnrollmentCommit(w) ==
    /\ pend[w].op = "create_enrollment"
    /\ LET p == pend[w]
           row == [f \in EnrollmentColumns |-> Attr(p.data, f)]
           new == [id |-> NextId(enrollments),
                   student_id |-> p.data.student_id,
                   course_id |-> p.data.course_id,
                   grade |-> p.data.grade,
                   enrollment_date |-> p.t]
       IN  IF EnrollmentIntegrityOk(enrollments, new.id, row)
           THEN /\ enrollments' = Put(enrollments, new)
                /\ Committed(w, "create_enrollment", p.req, 201, <<new>>)
           ELSE /\ enrollments' = enrollments
                /\ Failed(w, "create_enrollment", p.req,
                          CreateEnrollmentError)
    /\ pend' = [pend EXCEPT ![w] = Idle]
    /\ UNCHANGED <<students, courses, now>>

(***************************************************************************)
(* GET /enrollments/, GET /enrollments/{enrollment_id},                    *)
(* GET /students/{student_id}/enrollments,                                 *)
(* GET /courses/{course_id}/enrollments                                    *)
(***************************************************************************)
ReadEnrollments(w, I) ==
    /\ pend[w] = Idle
    /\ \E skip \in I.skips, limit \in I.limits :
        Answer(w, "read_enrollments",
               [id |-> 0, skip |-> skip, limit |-> limit],
               200, Limit(Offset(Scan(enrollments), skip), limit))

ReadEnrollment(w, I) ==
    /\ pend[w] = Idle
    /\ \E id \in I.ids :
        LET got == Get(enrollments, id) IN
        IF got = <<>>
        THEN Reject(w, "read_enrollment", [id |-> id], 404, "read", "Enrollment not found")
        ELSE Answer(w, "read_enrollment", [id |-> id], 200, got)

ReadStudentEnrollments(w, I) ==
    /\ pend[w] = Idle
    /\ \E id \in I.ids :
        IF Get(students, id) = <<>>
        THEN Reject(w, "read_student_enrollments", [id |-> id], 404, "read",
                    "Student not found")
        ELSE Answer(w, "read_student_enrollments", [id |-> id], 200,
                    EnrollmentsOfStudent(enrollments, id))

ReadCourseEnrollments(w, I) ==
    /\ pend[w] = Idle
    /\ \E id \in I.ids :
        IF Get(courses, id) = <<>>
        THEN Reject(w, "read_course_enrollments", [id |-> id], 404, "read",
                    "Course not found")
        ELSE Answer(w, "read_course_enrollments", [id |-> id], 200,
                    EnrollmentsOfCourse(enrollments, id))

(***************************************************************************)
(* PUT /enrollments/{enrollment_id}                                        *)
(***************************************************************************)
UpdateEnrollmentBegin(w, I) ==
    /\ pend[w] = Idle
    /\ \E id \in I.ids, b \in I.eu :
        LET req == [id |-> id, data |-> b]
            got == Get(enrollments, id)
        IN
        IF ~ValidEnrollmentUpdate(b)
        THEN Unprocessable(w, "update_enrollment", req)
        ELSE IF got = <<>>
        THEN Reject(w, "update_enrollment", req, 404, "precheck",
                    "Enrollment not found")
        ELSE /\ Proceed(w, [op |-> "update_enrollment", req |-> req,
                            ch |-> Changes(got[1], DumpExcludeUnset(
                                               ParseEnrollmentUpdate(b)))])
             /\ UNCHANGED now

UpdateEnrollmentCommit(w) ==
    /\ pend[w].op = "update_enrollment"
    /\ LET p == pend[w]
           id == p.req.id
       IN  IF id \notin DOMAIN enrollments
           THEN \* StaleDataError, or the refresh finds no row
                /\ enrollments' = enrollments
                /\ Failed(w, "update_enrollment", p.req,
                          UpdateEnrollmentError)
           ELSE LET row == Written(enrollments[id], p.ch, EnrollmentColumns)
                    new == [id |-> id, student_id |-> row.student_id.v,
                            course_id |-> row.course_id.v,
                            grade |-> row.grade,
                            enrollment_date |-> enrollments[id].enrollment_date]
                IN  IF EnrollmentIntegrityOk(enrollments, id, row)
                    THEN /\ enrollments' = Put(enrollments, new)
                         /\ Committed(w, "update_enrollment", p.req, 200,
                                      <<new>>)
                    ELSE /\ enrollments' = Rollback(enrollments, id, p.ch)
                         /\ Failed(w, "update_enrollment", p.req,
                                   UpdateEnrollmentError)
    /\ pend' = [pend EXCEPT ![w] = Idle]
    /\ UNCHANGED <<students, courses, now>>

(***************************************************************************)
(* DELETE /enrollments/{enrollment_id}                                     *)
(***************************************************************************)
DeleteEnrollmentBegin(w, I) ==
    /\ pend[w] = Idle
    /\ \E id \in I.ids :
        LET req == [id |-> id] IN
        IF Get(enrollments, id) = <<>>
        THEN Reject(w, "delete_enrollment", req, 404, "precheck",
                    "Enrollment not found")
        ELSE /\ Proceed(w, [op |-> "delete_enrollment", req |-> req])
             /\ UNCHANGED now

DeleteEnrollmentCommit(w) ==
    /\ pend[w].op = "delete_enrollment"
    /\ enrollments' = Remove(enrollments, pend[w].req.id)
    /\ Committed(w, "delete_enrollment", pend[w].req, 204, <<>>)
    /\ pend' = [pend EXCEPT ![w] = Idle]
    /\ UNCHANGED <<students, courses, now>>

(***************************************************************************)
(* The requests the clients send.                                          *)
(***************************************************************************)
ReqIds == 1..MaxReqId
Pages == 0..MaxPage
\* skip: int = 0, limit: int = 100
DefaultSkip == 0
DefaultLimit == 100

E1 == <<"a", "@", "b", ".", "c">>
E1u == <<"a", "@", "B", ".", "C">>
E2 == <<"b", "@", "b", ".", "c">>
EBad == <<"a", "b">>
ENoDot == <<"a", "@", "b">>

S1 == [name |-> "Al", email |-> E1, age |-> 1]
S2 == [name |-> "Bo", email |-> E1u, age |-> 150]
S3 == [name |-> "Al", email |-> E2, age |-> 20]

NoStudentUpdate == [name |-> Unset, email |-> Unset, age |-> Unset]

K1 == [title |-> "T1", description |-> Null, credits |-> 1,
       instructor |-> "I1"]
K2 == [title |-> "T2", description |-> Val("d"), credits |-> 10,
       instructor |-> "I1"]

NoCourseUpdate ==
    [title |-> Unset, description |-> Unset, credits |-> Unset,
     instructor |-> Unset]

Enroll(sid, cid, grade) ==
    [student_id |-> sid, course_id |-> cid, grade |-> grade]

\* bodies that break one field bound each
BadStudentCreates ==
    { [S3 EXCEPT !.name = ""],
      [S3 EXCEPT !.name = Rep("x", NameMaxLen + 1)],
      [S3 EXCEPT !.email = EBad],
      [S3 EXCEPT !.email = ENoDot],
      [S3 EXCEPT !.age = AgeMin - 1],
      [S3 EXCEPT !.age = AgeMax + 1] }

BadStudentUpdates ==
    { [NoStudentUpdate EXCEPT !.name = Val("")],
      [NoStudentUpdate EXCEPT !.name = Val(Rep("x", NameMaxLen + 1))],
      [NoStudentUpdate EXCEPT !.email = Val(EBad)],
      [NoStudentUpdate EXCEPT !.age = Val(AgeMin - 1)],
      [NoStudentUpdate EXCEPT !.age = Val(AgeMax + 1)] }

BadCourseCreates ==
    { [K1 EXCEPT !.title = ""],
      [K1 EXCEPT !.title = Rep("x", TitleMaxLen + 1)],
      [K1 EXCEPT !.description = Val(Rep("x", DescriptionMaxLen + 1))],
      [K1 EXCEPT !.credits = CreditsMin - 1],
      [K1 EXCEPT !.credits = CreditsMax + 1],
      [K1 EXCEPT !.instructor = ""],
      [K1 EXCEPT !.instructor = Rep("x", InstructorMaxLen + 1)] }

BadCourseUpdates ==
    { [NoCourseUpdate EXCEPT !.title = Val("")],
      [NoCourseUpdate EXCEPT !.title = Val(Rep("x", TitleMaxLen + 1))],
      [NoCourseUpdate EXCEPT !.credits = Val(CreditsMin - 1)],
      [NoCourseUpdate EXCEPT !.credits = Val(CreditsMax + 1)],
      [NoCourseUpdate EXCEPT !.instructor = Val("")],
      [NoCourseUpdate EXCEPT !.instructor = Val(Rep("x", InstructorMaxLen + 1))] }

BadGrade == Val(Rep("A", GradeMaxLen + 1))

\* the requests of the whole service
AllInputs ==
    [ tmax |-> MaxTime,
      ids |-> ReqIds,
      skips |-> {DefaultSkip},
      limits |-> {DefaultLimit},
      sc |-> {S1, S2, S3},
      su |-> { NoStudentUpdate,
               [NoStudentUpdate EXCEPT !.name = Val("Bo"), !.age = Val(21)],
               [NoStudentUpdate EXCEPT !.email = Val(E1u)],
               [NoStudentUpdate EXCEPT !.email = Val(E2), !.age = Null],
               [NoStudentUpdate EXCEPT !.email = Null],
               [NoStudentUpdate EXCEPT !.age = Val(AgeMin - 1)] },
      cc |-> {K1, K2},
      cu |-> { NoCourseUpdate,
               [NoCourseUpdate EXCEPT !.title = Val("T3"), !.credits = Val(3),
                                      !.instructor = Val("I2")],
               [NoCourseUpdate EXCEPT !.description = Null],
               [NoCourseUpdate EXCEPT !.title = Null] },
      ec |-> { Enroll(1, 1, Null), Enroll(1, 2, Null), Enroll(2, 1, Null),
               Enroll(2, 2, Null), Enroll(1, 1, Val("A")),
               Enroll(2, 2, BadGrade) },
      eu |-> { [grade |-> Unset], [grade |-> Null],
               [grade |-> Val("B+"), student_id |-> Val(2),
                course_id |-> Val(2)] } ]

Begin(w, I) ==
    \/ ReadRoot(w, I)
    \/ CreateStudentBegin(w, I)
    \/ ReadStudents(w, I)
    \/ ReadStudent(w, I)
    \/ UpdateStudentBegin(w, I)
    \/ DeleteStudentBegin(w, I)
    \/ CreateCourseBegin(w, I)
    \/ ReadCourses(w, I)
    \/ ReadCourse(w, I)
    \/ UpdateCourseBegin(w, I)
    \/ DeleteCourseBegin(w, I)
    \/ CreateEnrollmentBegin(w, I)
    \/ ReadEnrollments(w, I)
    \/ ReadEnrollment(w, I)
    \/ ReadStudentEnrollments(w, I)
    \/ ReadCourseEnrollments(w, I)
    \/ UpdateEnrollmentBegin(w, I)
    \/ DeleteEnrollmentBegin(w, I)

Commit(w) ==
    \/ CreateStudentCommit(w)
    \/ UpdateStudentCommit(w)
    \/ DeleteStudentCommit(w)
    \/ CreateCourseCommit(w)
    \/ UpdateCourseCommit(w)
    \/ DeleteCourseCommit(w)
    \/ CreateEnrollmentCommit(w)
    \/ UpdateEnrollmentCommit(w)
    \/ DeleteEnrollmentCommit(w)

\* the whole service in one server process: the handlers run one after the
\* other
Next == Begin(1, AllInputs) \/ Commit(1)

Spec == Init /\ [][Next]_vars

(***************************************************************************)
(* One server process, the enrollment routes with the students and courses *)
(* they refer to.                                                          *)
(***************************************************************************)
EnrollInputs ==
    [ tmax |-> EnrollMaxTime,
      ids |-> ReqIds,
      sc |-> {S1, S3},
      cc |-> {K2},
      ec |-> {Enroll(sid, cid, Null) : sid \in ReqIds, cid \in ReqIds}
             \cup {Enroll(1, 1, BadGrade)} ]

NextEnroll ==
    \/ CreateStudentBegin(1, EnrollInputs)
    \/ CreateStudentCommit(1)
    \/ DeleteStudentBegin(1, EnrollInputs)
    \/ DeleteStudentCommit(1)
    \/ CreateCourseBegin(1, EnrollInputs)
    \/ CreateCourseCommit(1)
    \/ DeleteCourseBegin(1, EnrollInputs)
    \/ DeleteCourseCommit(1)
    \/ CreateEnrollmentBegin(1, EnrollInputs)
    \/ CreateEnrollmentCommit(1)
    \/ ReadStudentEnrollments(1, EnrollInputs)
    \/ ReadCourseEnrollments(1, EnrollInputs)

SpecEnroll == Init /\ [][NextEnroll]_vars

(***************************************************************************)
(* One server process, the routes that take a body, with bodies inside and *)
(* outside the bounds of schemas.py.                                       *)
(***************************************************************************)
ValidInputs ==
    [ tmax |-> ValidMaxTime,
      ids |-> ReqIds,
      sc |-> {S1} \cup BadStudentCreates,
      su |-> { [NoStudentUpdate EXCEPT !.name = Val("Bo")],
               [NoStudentUpdate EXCEPT !.name = Null] }
             \cup BadStudentUpdates,
      cc |-> {K2} \cup BadCourseCreates,
      cu |-> { [NoCourseUpdate EXCEPT !.credits = Val(CreditsMax)],
               [NoCourseUpdate EXCEPT !.title = Null] }
             \cup BadCourseUpdates,
      ec |-> {Enroll(1, 1, Val("A")), Enroll(1, 1, BadGrade)},
      eu |-> {[grade |-> Val("B+")], [grade |-> Null], [grade |-> BadGrade]} ]

NextValid ==
    \/ CreateStudentBegin(1, ValidInputs)
    \/ CreateStudentCommit(1)
    \/ UpdateStudentBegin(1, ValidInputs)
    \/ UpdateStudentCommit(1)
    \/ CreateCourseBegin(1, ValidInputs)
    \/ CreateCourseCommit(1)
    \/ UpdateCourseBegin(1, ValidInputs)
    \/ UpdateCourseCommit(1)
    \/ CreateEnrollmentBegin(1, ValidInputs)
    \/ CreateEnrollmentCommit(1)
    \/ UpdateEnrollmentBegin(1, ValidInputs)
    \/ UpdateEnrollmentCommit(1)

SpecValid == Init /\ [][NextValid]_vars

(***************************************************************************)
(* One server process, the list routes with skip and limit.                *)
(***************************************************************************)
E3 == <<"c", "@", "b", ".", "c">>

ListInputs ==
    [ tmax |-> ListMaxTime,
      ids |-> ReqIds,
      skips |-> Pages,
      limits |-> Pages,
      sc |-> {S1, S3, [S1 EXCEPT !.email = E3]},
      cc |-> {K1},
      ec |-> {Enroll(1, 1, Null), Enroll(1, 2, Null)} ]

NextList ==
    \/ CreateStudentBegin(1, ListInputs)
    \/ CreateStudentCommit(1)
    \/ DeleteStudentBegin(1, ListInputs)
    \/ DeleteStudentCommit(1)
    \/ ReadStudents(1, ListInputs)
    \/ CreateCourseBegin(1, ListInputs)
    \/ CreateCourseCommit(1)
    \/ ReadCourses(1, ListInputs)
    \/ CreateEnrollmentBegin(1, ListInputs)
    \/ CreateEnrollmentCommit(1)
    \/ DeleteEnrollmentBegin(1, ListInputs)
    \/ DeleteEnrollmentCommit(1)
    \/ ReadEnrollments(1, ListInputs)

SpecList == Init /\ [][NextList]_vars

(***************************************************************************)
(* Several server processes on one database: the pre-checks of one request *)
(* and the commit of another interleave.  First the student routes that    *)
(* write, then the creation of enrollments.                                *)
(***************************************************************************)
RaceStudentInputs ==
    [ tmax |-> RaceStudentMaxTime,
      ids |-> ReqIds,
      sc |-> {S1, S2, S3},
      su |-> { [NoStudentUpdate EXCEPT !.email = Val(E1u)],
               [NoStudentUpdate EXCEPT !.email = Val(E2)] } ]

NextRaceStudent ==
    \E w \in Workers :
        \/ CreateStudentBegin(w, RaceStudentInputs)
        \/ CreateStudentCommit(w)
        \/ UpdateStudentBegin(w, RaceStudentInputs)
        \/ UpdateStudentCommit(w)
        \/ DeleteStudentBegin(w, RaceStudentInputs)
        \/ DeleteStudentCommit(w)

SpecRaceStudent == Init /\ [][NextRaceStudent]_vars

RaceEnrollInputs ==
    [ tmax |-> RaceEnrollMaxTime,
      ids |-> ReqIds,
      sc |-> {S1},
      cc |-> {K2},
      ec |-> {Enroll(1, 1, Null)} ]

NextRaceEnroll ==
    \E w \in Workers :
        \/ CreateStudentBegin(w, RaceEnrollInputs)
        \/ CreateStudentCommit(w)
        \/ CreateCourseBegin(w, RaceEnrollInputs)
        \/ CreateCourseCommit(w)
        \/ CreateEnrollmentBegin(w, RaceEnrollInputs)
        \/ CreateEnrollmentCommit(w)
        \/ DeleteEnrollmentBegin(w, RaceEnrollInputs)
        \/ DeleteEnrollmentCommit(w)

SpecRaceEnroll == Init /\ [][NextRaceEnroll]_vars

(***************************************************************************)
(* Two server processes, every route that writes except DELETE            *)
(* /students/{id} and DELETE /courses/{id}.                                *)
(***************************************************************************)
NoDeleteInputs ==
    [ tmax |-> NoDeleteMaxTime,
      ids |-> ReqIds,
      sc |-> {S1},
      su |-> { [NoStudentUpdate EXCEPT !.email = Val(E2)] },
      cc |-> {K2},
      cu |-> { [NoCourseUpdate EXCEPT !.title = Val("T3")] },
      ec |-> { Enroll(1, 1, Null), Enroll(1, 2, Null), Enroll(2, 1, Null) },
      eu |-> { [grade |-> Val("B+"), student_id |-> Val(2),
                course_id |-> Val(2)] } ]

NextNoDelete ==
    \E w \in Workers :
        \/ CreateStudentBegin(w, NoDeleteInputs)
        \/ CreateStudentCommit(w)
        \/ UpdateStudentBegin(w, NoDeleteInputs)
        \/ UpdateStudentCommit(w)
        \/ CreateCourseBegin(w, NoDeleteInputs)
        \/ CreateCourseCommit(w)
        \/ UpdateCourseBegin(w, NoDeleteInputs)
        \/ UpdateCourseCommit(w)
        \/ CreateEnrollmentBegin(w, NoDeleteInputs)
        \/ CreateEnrollmentCommit(w)
        \/ UpdateEnrollmentBegin(w, NoDeleteInputs)
        \/ UpdateEnrollmentCommit(w)
        \/ DeleteEnrollmentBegin(w, NoDeleteInputs)
        \/ DeleteEnrollmentCommit(w)

SpecNoDelete == Init /\ [][NextNoDelete]_vars

(***************************************************************************)
(* The claims.                                                             *)
(***************************************************************************)
Holders(tbl, email) == {i \in DOMAIN tbl : tbl[i].email = email}

SamePair(tbl) ==
    {pr \in (DOMAIN tbl) \X (DOMAIN tbl) :
        /\ pr[1] # pr[2]
        /\ tbl[pr[1]].student_id = tbl[pr[2]].student_id
        /\ tbl[pr[1]].course_id = tbl[pr[2]].course_id}

\* C1: in every reachable state, whatever the interleaving of create-student,
\* update-student and delete-student requests, no two stored students have
\* the same email.
C1_EmailUnique ==
    \A i \in DOMAIN students, j \in DOMAIN students :
        i # j => students[i].email # students[j].email

\* the store refused an update-student whose email another student took
\* between the pre-check and the commit
C1_Witness ==
    /\ last.op = "update_student"
    /\ last.status = 400
    /\ last.via = "commit"
    /\ Cardinality(DOMAIN students) = 2

\* C2: in every reachable state, also when the existence checks of two
\* create-enrollment requests both run before either commit, no two stored
\* enrollments have the same (student_id, course_id) pair.
C2_PairUnique == SamePair(enrollments) = {}

\* C3: two valid create-student requests with the same email, answered one
\* after the other with no other response in between (the second may have run
\* its pre-check before the first committed), where no student held the email
\* before the first: the first is answered 201, the second 400, and exactly
\* one student with that email is stored afterwards.
C3_IsCreate(r) == r.op = "create_student" /\ ValidStudentCreate(r.req.data)

C3_Email(r) == NormalizeEmail(r.req.data.email)

C3_First ==
    (/\ C3_IsCreate(last')
     /\ Holders(last'.pre[1], C3_Email(last')) = {})
    => last'.status = 201

C3_Second ==
    (/\ last' # last
     /\ C3_IsCreate(last)
     /\ C3_IsCreate(last')
     /\ C3_Email(last) = C3_Email(last')
     /\ Holders(last.pre[1], C3_Email(last)) = {})
    => /\ last.status = 201
       /\ last'.status = 400
       /\ Cardinality(Holders(students', C3_Email(last))) = 1

C3_OneSuccessOneConflict == [][C3_First /\ C3_Second]_vars

\* the second of two concurrent create-student requests is refused by the store
C3_Witness ==
    /\ last.op = "create_student"
    /\ last.status = 400
    /\ last.via = "commit"
    /\ Cardinality(Holders(students, C3_Email(last))) = 1

\* C4: a create-enrollment request with a schema-valid body is answered 404
\* "Student not found" when its student_id is not a stored student, whether or
\* not its course_id is a stored course, and 404 "Course not found" when the
\* student is stored and the course is not; in both cases the stored
\* enrollments are the ones before the request.
C4_StudentThenCourse ==
    (last.op = "create_enrollment" /\ ValidEnrollmentCreate(last.req.data)) =>
        LET b == last.req.data IN
        /\ b.student_id \notin DOMAIN last.pre[1] =>
              /\ last.status = 404
              /\ last.detail = "Student not found"
              /\ enrollments = last.pre[3]
        /\ (b.student_id \in DOMAIN last.pre[1]
              /\ b.course_id \notin DOMAIN last.pre[2]) =>
              /\ last.status = 404
              /\ last.detail = "Course not found"
              /\ enrollments = last.pre[3]

\* neither the student nor the course of the request is stored, and the answer
\* names the student
C4_Witness ==
    /\ last.op = "create_enrollment"
    /\ last.req.data.student_id \notin DOMAIN students
    /\ last.req.data.course_id \notin DOMAIN courses
    /\ last.status = 404
    /\ last.detail = "Student not found"
    /\ enrollments # EmptyTable

\* C5: a create-enrollment request with a schema-valid body whose student and
\* course are stored and whose (student_id, course_id) pair is already stored
\* is answered 400 "Student already enrolled in this course", and the stored
\* enrollments are the ones before the request.
C5_DuplicateRejected ==
    (/\ last.op = "create_enrollment"
     /\ ValidEnrollmentCreate(last.req.data)
     /\ last.req.data.student_id \in DOMAIN last.pre[1]
     /\ last.req.data.course_id \in DOMAIN last.pre[2]
     /\ \E i \in DOMAIN last.pre[3] :
            /\ last.pre[3][i].student_id = last.req.data.student_id
            /\ last.pre[3][i].course_id = last.req.data.course_id)
    => /\ last.status = 400
       /\ last.detail = "Student already enrolled in this course"
       /\ enrollments = last.pre[3]

\* the pair of the refused request is stored once
C5_Witness ==
    /\ last.op = "create_enrollment"
    /\ last.status = 400
    /\ last.req.data.student_id \in DOMAIN students
    /\ last.req.data.course_id \in DOMAIN courses
    /\ Cardinality({i \in DOMAIN enrollments :
            /\ enrollments[i].student_id = last.req.data.student_id
            /\ enrollments[i].course_id = last.req.data.course_id}) = 1

\* C6: after an update of a student or a course answered 200, the row has the
\* id and the value of every attribute that the request body left out (and
\* its created_at) as before the request, and every other row of the store is
\* as before.
C6_Kept(old, new, body) ==
    /\ new.id = old.id
    /\ new.created_at = old.created_at
    /\ \A f \in DOMAIN body : body[f] = Unset => new[f] = old[f]

C6_Frame(k, id) ==
    /\ \A t \in {1, 2, 3} \ {k} : store[t] = last.pre[t]
    /\ DOMAIN store[k] = DOMAIN last.pre[k]
    /\ \A j \in DOMAIN store[k] \ {id} : store[k][j] = last.pre[k][j]

C6_Updated(op, k) ==
    (last.op = op /\ last.status = 200) =>
        /\ last.req.id \in DOMAIN last.pre[k]
        /\ C6_Frame(k, last.req.id)
        /\ C6_Kept(last.pre[k][last.req.id], store[k][last.req.id],
                   last.req.data)

C6_OnlyGivenFields ==
    /\ C6_Updated("update_student", 1)
    /\ C6_Updated("update_course", 2)

\* a course update that carried a title and no description: the title is the
\* new one, the stored description is kept
C6_Witness ==
    /\ last.op = "update_course"
    /\ last.status = 200
    /\ last.req.data.title = Val("T3")
    /\ last.req.data.description = Unset
    /\ courses[last.req.id].title = "T3"
    /\ last.pre[2][last.req.id].title # "T3"
    /\ courses[last.req.id].description = Val("d")

\* C7: for students, courses and enrollments: when a delete-by-id was answered
\* 204 and the next request is a get-by-id of the same id it is answered 404,
\* and when the next request is the list of that entity type no row of the
\* list has that id.
C7_Gone(del, get, list) ==
    (last.op = del /\ last.status = 204) =>
        /\ (last'.op = get /\ last'.req.id = last.req.id) => last'.status = 404
        /\ last'.op = list =>
              \A i \in 1..Len(last'.body) : last'.body[i].id # last.req.id

C7_DeleteThenGet ==
    [][/\ C7_Gone("delete_student", "read_student", "read_students")
       /\ C7_Gone("delete_course", "read_course", "read_courses")
       /\ C7_Gone("delete_enrollment", "read_enrollment", "read_enrollments")
      ]_vars

\* a stored student was deleted with 204 and another student is still stored
C7_Witness ==
    /\ last.op = "delete_student"
    /\ last.status = 204
    /\ last.req.id \in DOMAIN last.pre[1]
    /\ last.req.id \notin DOMAIN students
    /\ students # EmptyTable

\* C8: list-by-student (list-by-course) is answered 404 when the id is not a
\* stored student (course), and otherwise 200 with each stored enrollment
\* whose student_id (course_id) is the id exactly once and nothing else.
C8_Exactly(body, rows) ==
    /\ {body[i] : i \in 1..Len(body)} = rows
    /\ Len(body) = Cardinality(rows)

C8_Of(parent, id) ==
    {last.pre[3][i] : i \in {j \in DOMAIN last.pre[3] :
                                 last.pre[3][j][parent] = id}}

C8_List(op, k, parent) ==
    last.op = op =>
        IF last.req.id \notin DOMAIN last.pre[k]
        THEN last.status = 404
        ELSE /\ last.status = 200
             /\ C8_Exactly(last.body, C8_Of(parent, last.req.id))

C8_ListByParent ==
    /\ C8_List("read_student_enrollments", 1, "student_id")
    /\ C8_List("read_course_enrollments", 2, "course_id")

\* a stored student without enrollments while another student has one
C8_Witness ==
    /\ last.op = "read_student_enrollments"
    /\ last.status = 200
    /\ last.body = <<>>
    /\ enrollments # EmptyTable

\* C9: each list endpoint, for every skip >= 0 and limit >= 0, is answered 200
\* with the contiguous slice of the stored rows, taken in the order of their
\* creation, that starts after the first skip rows and has
\* min(limit, max(0, count - skip)) rows.
C9_Created(r, k) == IF k = 3 THEN r.enrollment_date ELSE r.created_at

C9_InCreationOrder(tbl, k) ==
    LET rows == {tbl[i] : i \in DOMAIN tbl}
        Rank(r) ==
            1 + Cardinality({q \in rows : C9_Created(q, k) < C9_Created(r, k)})
    IN  [n \in 1..Cardinality(rows) |-> CHOOSE r \in rows : Rank(r) = n]

C9_Slice(all, skip, limit) ==
    LET len == Min2(limit, Max2(0, Len(all) - skip))
    IN  [n \in 1..len |-> all[skip + n]]

C9_List(op, k) ==
    last.op = op =>
        /\ last.status = 200
        /\ last.body = C9_Slice(C9_InCreationOrder(last.pre[k], k),
                                last.req.skip, last.req.limit)

C9_Paging ==
    /\ C9_List("read_students", 1)
    /\ C9_List("read_courses", 2)
    /\ C9_List("read_enrollments", 3)

\* two students are stored after a third was deleted, and the page of skip 1
\* and limit 1 is the student created last
C9_Witness ==
    /\ last.op = "read_students"
    /\ last.req.skip = 1
    /\ last.req.limit = 1
    /\ Cardinality(DOMAIN students) = 2
    /\ Len(last.body) = 1
    /\ last.body[1].id = 3

\* C10: a create or update request whose body breaks a field bound (a student
\* age below 1 or above 150, course credits below 1 or above 10, an email
\* without exactly one "@" or without a dot in its domain, an empty name,
\* title or instructor or one longer than 100, 200 and 100 characters, a grade
\* longer than 2 characters) is answered 422 and the store is as before the
\* request.
C10_BadInt(n, lo, hi) == n < lo \/ n > hi

C10_BadStr(x, hi) == Len(x) = 0 \/ Len(x) > hi

C10_BadEmail(x) ==
    \/ Cardinality({i \in 1..Len(x) : x[i] = "@"}) # 1
    \/ \A i \in 1..Len(x), j \in 1..Len(x) : ~(x[i] = "@" /\ i < j /\ x[j] = ".")

\* the fields of a create body are values, those of an update body are set
\* or not
C10_Given(b, f) ==
    IF f \notin DOMAIN b THEN {}
    ELSE IF b[f] \in {Null, Unset} THEN {}
    ELSE {b[f].v}

C10_BadStudent(given(_)) ==
    \/ \E n \in given("age") : C10_BadInt(n, 1, 150)
    \/ \E x \in given("email") : C10_BadEmail(x)
    \/ \E x \in given("name") : C10_BadStr(x, 100)

C10_BadCourse(given(_)) ==
    \/ \E n \in given("credits") : C10_BadInt(n, 1, 10)
    \/ \E x \in given("title") : C10_BadStr(x, 200)
    \/ \E x \in given("instructor") : C10_BadStr(x, 100)

C10_Breaks ==
    LET b == last.req.data
        value(f) == {b[f]}
        given(f) == C10_Given(b, f)
    IN  \/ last.op = "create_student" /\ C10_BadStudent(value)
        \/ last.op = "update_student" /\ C10_BadStudent(given)
        \/ last.op = "create_course"
              /\ C10_BadCourse(LAMBDA f : IF f = "description" THEN {}
                                          ELSE {b[f]})
        \/ last.op = "update_course" /\ C10_BadCourse(given)
        \/ last.op \in {"create_enrollment", "update_enrollment"}
              /\ \E x \in given("grade") : Len(x) > 2

C10_Unprocessable == C10_Breaks => (last.status = 422 /\ store = last.pre)

\* an update of a stored student with a body that breaks a bound
C10_Witness ==
    /\ last.op = "update_student"
    /\ C10_Breaks
    /\ last.status = 422
    /\ last.req.id \in DOMAIN students

\* C11: a create of a student, course or enrollment answered 201 returns an id
\* that no row stored before had and stores one row more, the others as they
\* were; a get-by-id of that id served next is answered 200 with the
\* attribute values of the create body, the email with its domain in lower
\* case (the form validation gives it) and its local part as supplied.
C11_Fresh(op, k) ==
    (last.op = op /\ last.status = 201) =>
        /\ last.body[1].id \notin DOMAIN last.pre[k]
        /\ DOMAIN store[k] = DOMAIN last.pre[k] \cup {last.body[1].id}
        /\ \A j \in DOMAIN last.pre[k] : store[k][j] = last.pre[k][j]

C11_FreshId ==
    /\ C11_Fresh("create_student", 1)
    /\ C11_Fresh("create_course", 2)
    /\ C11_Fresh("create_enrollment", 3)

C11_Supplied(f) == last.req.data[f]

C11_Validated(f) ==
    IF last.op = "create_student" /\ f = "email"
    THEN NormalizeEmail(last.req.data[f])
    ELSE last.req.data[f]

C11_Read(create, get, Expected(_)) ==
    (/\ last.op = create
     /\ last.status = 201
     /\ last'.op = get
     /\ last'.req.id = last.body[1].id)
    => /\ last'.status = 200
       /\ \A f \in DOMAIN last.req.data : last'.body[1][f] = Expected(f)

C11_ReadBack(Expected(_)) ==
    /\ C11_Read("create_student", "read_student", Expected)
    /\ C11_Read("create_course", "read_course", Expected)
    /\ C11_Read("create_enrollment", "read_enrollment", Expected)

C11_RoundTripValidated == []C11_FreshId /\ [][C11_ReadBack(C11_Validated)]_vars

\* C11 as stated: the get-by-id returns the email exactly as supplied
C11_RoundTripExact == []C11_FreshId /\ [][C11_ReadBack(C11_Supplied)]_vars

\* a student created with an upper-case domain is stored with the domain in
\* lower case
C11_Witness ==
    /\ last.op = "create_student"
    /\ last.status = 201
    /\ last.body[1].email # last.req.data.email
    /\ students[last.body[1].id].email = NormalizeEmail(last.req.data.email)

\* C12: an update-student with a schema-valid body that carries an email, on
\* a stored id, is answered 400 with the store as before when the email
\* differs from the student's own and another stored student holds it, and is
\* answered 200 when the email is the student's own or no student holds it.
C12_EmailConflictOnly ==
    (/\ last.op = "update_student"
     /\ ValidStudentUpdate(last.req.data)
     /\ last.req.id \in DOMAIN last.pre[1]
     /\ last.req.data.email.k = "val")
    => LET email == NormalizeEmail(last.req.data.email.v)
           others == Holders(last.pre[1], email) \ {last.req.id}
       IN  IF email # last.pre[1][last.req.id].email /\ others # {}
           THEN last.status = 400 /\ store = last.pre
           ELSE last.status = 200

\* C13: for students, courses and enrollments, a get-by-id, an update with a
\* schema-valid body and a delete of an id that is not stored are answered
\* 404 with the store as before; for update-student also when the email of
\* the body is held by a stored student.
C13_Absent(ops, k) ==
    (/\ last.op \in ops
     /\ last.req.id \notin DOMAIN last.pre[k]
     /\ last.op = "update_student" => ValidStudentUpdate(last.req.data)
     /\ last.op = "update_course" => ValidCourseUpdate(last.req.data)
     /\ last.op = "update_enrollment" => ValidEnrollmentUpdate(last.req.data))
    => /\ last.status = 404
       /\ store = last.pre

C13_NotFound ==
    /\ C13_Absent({"read_student", "update_student", "delete_student"}, 1)
    /\ C13_Absent({"read_course", "update_course", "delete_course"}, 2)
    /\ C13_Absent({"read_enrollment", "update_enrollment",
                   "delete_enrollment"}, 3)

\* an update of an absent student with an email that a stored student holds
C13_Witness ==
    /\ last.op = "update_student"
    /\ last.req.id \notin DOMAIN students
    /\ last.req.data.email.k = "val"
    /\ Holders(students, NormalizeEmail(last.req.data.email.v)) # {}
    /\ last.status = 404

\* C14: when a create-student, update-student or create-enrollment passed its
\* pre-check and another request changed the store before its commit, so
\* that the commit breaks the uniqueness of the email or of the
\* (student_id, course_id) pair or refers to a student or course that is gone,
\* the commit is answered with the 400 or 404 that the pre-check gives on the
\* store the commit found.
C14_PreCheck ==
    LET b == last.req.data IN
    CASE last.op = "create_student" ->
            IF Holders(last.pre[1], NormalizeEmail(b.email)) # {}
            THEN 400 ELSE 0
      [] last.op = "update_student" ->
            IF /\ last.req.id \in DOMAIN last.pre[1]
               /\ b.email.k = "val"
               /\ Holders(last.pre[1], NormalizeEmail(b.email.v))
                      \ {last.req.id} # {}
            THEN 400 ELSE 0
      [] last.op = "create_enrollment" ->
            IF b.student_id \notin DOMAIN last.pre[1] THEN 404
            ELSE IF b.course_id \notin DOMAIN last.pre[2] THEN 404
            ELSE IF \E i \in DOMAIN last.pre[3] :
                        /\ last.pre[3][i].student_id = b.student_id
                        /\ last.pre[3][i].course_id = b.course_id
            THEN 400 ELSE 0
      [] OTHER -> 0

C14_RaceTranslated ==
    (last.via = "commit" /\ C14_PreCheck # 0) => last.status = C14_PreCheck

\* C15: a delete-student (delete-course) of a stored id is answered 204
\* whatever enrollments refer to the id; it removes that student (course)
\* and no other, and the enrollments and the other table are as before, so
\* the enrollments of the deleted id are still stored; the list of
\* enrollments with the default skip and limit returns every stored
\* enrollment, those of deleted students and courses included.
C15_Delete(op, k) ==
    (last.op = op /\ last.req.id \in DOMAIN last.pre[k]) =>
        /\ last.status = 204
        /\ DOMAIN store[k] = DOMAIN last.pre[k] \ {last.req.id}
        /\ \A j \in DOMAIN store[k] : store[k][j] = last.pre[k][j]
        /\ \A t \in {1, 2, 3} \ {k} : store[t] = last.pre[t]

C15_Listed ==
    (/\ last.op = "read_enrollments"
     /\ last.req.skip = 0
     /\ last.req.limit >= Cardinality(DOMAIN last.pre[3]))
    => {last.body[i] : i \in 1..Len(last.body)}
           = {last.pre[3][j] : j \in DOMAIN last.pre[3]}

C15_DeleteKeepsEnrollments ==
    /\ C15_Delete("delete_student", 1)
    /\ C15_Delete("delete_course", 2)
    /\ C15_Listed

\* a student with an enrollment was deleted and the enrollment is still stored
C15_Witness ==
    /\ last.op = "delete_student"
    /\ last.status = 204
    /\ \E i \in DOMAIN enrollments :
           enrollments[i].student_id = last.req.id
    /\ last.req.id \notin DOMAIN students
    /\ courses # EmptyTable

\* C16: when the commit of a mutating request fails (the store refuses the
\* write: an email that another request stored in between, a NOT NULL column
\* that the update body set to null), no field of the request is applied:
\* the store that the following requests read is the store before the failed
\* request.
C16_FailedCommitAppliesNothing ==
    (last.via = "commit" /\ last.status >= 400) => store = last.pre

\* an update-student that carried a new email and a null age was refused by
\* the store
C16_Witness ==
    /\ last.op = "update_student"
    /\ last.via = "commit"
    /\ last.status >= 400
    /\ last.req.data.email.k = "val"
    /\ last.req.data.age = Null
    /\ students[last.req.id].email # NormalizeEmail(last.req.data.email.v)

\* C17: in every reachable state, after creates and updates with bodies inside
\* and outside the bounds and with fields set to null, every stored student
\* has a name of 1 to 100 characters, an email and an age from 1 to 150;
\* every stored course has a title of 1 to 200 characters, credits from 1 to
\* 10 and an instructor of 1 to 100 characters; the grade of every stored
\* enrollment is null or has at most 2 characters.
C17_StoredWithinBounds ==
    /\ \A i \in DOMAIN students :
          /\ Len(students[i].name) \in 1..100
          /\ Len(students[i].email) >= 1
          /\ students[i].age \in 1..150
    /\ \A i \in DOMAIN courses :
          /\ Len(courses[i].title) \in 1..200
          /\ courses[i].credits \in 1..10
          /\ Len(courses[i].instructor) \in 1..100
    /\ \A i \in DOMAIN enrollments :
          \/ enrollments[i].grade = Null
          \/ Len(enrollments[i].grade.v) <= 2

\* an update that set the name of a stored student to null reached the store
C17_Witness ==
    /\ last.op = "update_student"
    /\ last.req.data.name = Null
    /\ last.via = "commit"
    /\ last.req.id \in DOMAIN students
    /\ Len(students[last.req.id].name) >= 1

\* C18: an update of a stored course whose body sets description to null (and
\* no other field to null), and an update of a stored enrollment whose body
\* sets grade to null, are answered 200 and store null in that attribute; an
\* update of a stored student, course or enrollment with an empty body is
\* answered 200 and leaves every attribute of the body's schema at its stored
\* value.
C18_Nulled(op, k, f) ==
    (/\ last.op = op
     /\ last.req.id \in DOMAIN last.pre[k]
     /\ last.req.data[f] = Null
     /\ \A g \in DOMAIN last.req.data \ {f} : last.req.data[g] # Null)
    => /\ last.status = 200
       /\ store[k][last.req.id][f] = Null

C18_Empty(op, k) ==
    (/\ last.op = op
     /\ last.req.id \in DOMAIN last.pre[k]
     /\ \A g \in DOMAIN last.req.data : last.req.data[g] = Unset)
    => /\ last.status = 200
       /\ \A g \in DOMAIN last.req.data :
             store[k][last.req.id][g] = last.pre[k][last.req.id][g]

C18_NullIsNotAbsent ==
    /\ C18_Nulled("update_course", 2, "description")
    /\ C18_Nulled("update_enrollment", 3, "grade")
    /\ C18_Empty("update_student", 1)
    /\ C18_Empty("update_course", 2)
    /\ C18_Empty("update_enrollment", 3)

\* a course that had a description has none after the update
C18_Witness ==
    /\ last.op = "update_course"
    /\ last.status = 200
    /\ last.req.data.description = Null
    /\ last.pre[2][last.req.id].description # Null
    /\ courses[last.req.id].description = Null

\* C19: for students and courses, in every step a row that stays stored keeps
\* its created_at and its updated_at does not decrease; an update answered
\* 200 leaves the row with an updated_at later than the one it had, also with
\* an empty body; and in every state updated_at is not earlier than
\* created_at.
C19_Ordered(tbl) ==
    \A i \in DOMAIN tbl : tbl[i].created_at <= tbl[i].updated_at

C19_Step(old, new) ==
    \A i \in DOMAIN old \cap DOMAIN new :
        /\ new[i].created_at = old[i].created_at
        /\ new[i].updated_at >= old[i].updated_at

C19_Updated(op, k) ==
    (last' # last /\ last'.op = op /\ last'.status = 200) =>
        store'[k][last'.req.id].updated_at > store[k][last'.req.id].updated_at

C19_Timestamps ==
    /\ [](C19_Ordered(students) /\ C19_Ordered(courses))
    /\ [][/\ C19_Step(students, students')
          /\ C19_Step(courses, courses')
          /\ C19_Updated("update_student", 1)
          /\ C19_Updated("update_course", 2)]_vars

\* C20: in every step, an enrollment that stays stored keeps its student_id,
\* its course_id and its enrollment_date; an update-enrollment whose body
\* carries student_id and course_id besides grade changes the grade alone.
C20_Step ==
    \A i \in DOMAIN enrollments \cap DOMAIN enrollments' :
        /\ enrollments'[i].student_id = enrollments[i].student_id
        /\ enrollments'[i].course_id = enrollments[i].course_id
        /\ enrollments'[i].enrollment_date = enrollments[i].enrollment_date

C20_OnlyGrade == [][C20_Step]_vars

\* an update that carried another student_id was answered 200 and changed
\* the grade
C20_Witness ==
    /\ last.op = "update_enrollment"
    /\ last.status = 200
    /\ "student_id" \in DOMAIN last.req.data
    /\ last.req.data.student_id # Val(enrollments[last.req.id].student_id)
    /\ enrollments[last.req.id].grade = last.req.data.grade
    /\ last.pre[3][last.req.id].grade # last.req.data.grade

\* C21: an update-student with a schema-valid body on a stored id is answered
\* 400 only when the body carries an email that another stored student
\* holds; a body that sets name, email or age to null is not answered 400.
C21_BadRequestOnlyOnConflict ==
    (/\ last.op = "update_student"
     /\ ValidStudentUpdate(last.req.data)
     /\ last.req.id \in DOMAIN last.pre[1]
     /\ last.status = 400)
    => /\ last.req.data.email.k = "val"
       /\ Holders(last.pre[1], NormalizeEmail(last.req.data.email.v))
              \ {last.req.id} # {}

\* C22: an update-course with a schema-valid body is answered 200 when the id
\* is stored, also when the body sets title, credits or instructor to null,
\* and 404 when the id is not stored; it has no other answer.
C22_UpdateCourseSucceeds ==
    (last.op = "update_course" /\ ValidCourseUpdate(last.req.data))
    => IF last.req.id \in DOMAIN last.pre[2]
       THEN last.status = 200
       ELSE last.status = 404

\* C23: a list-by-student (list-by-course) for the id that the create-student
\* (create-course) answered just before returns 200 and the empty list, also
\* when enrollments of a deleted student (course) are still stored.
C23_Empty(create, list) ==
    (/\ last.op = create
     /\ last.status = 201
     /\ last'.op = list
     /\ last'.req.id = last.body[1].id)
    => /\ last'.status = 200
       /\ last'.body = <<>>

C23_NewHasNoEnrollments ==
    [][/\ C23_Empty("create_student", "read_student_enrollments")
       /\ C23_Empty("create_course", "read_course_enrollments")]_vars

\* C24: in every run without delete-student and delete-course, under every
\* interleaving of the requests of two server processes, the student_id of
\* every stored enrollment is the id of a stored student and its course_id
\* the id of a stored course.
C24_EnrollmentsReferToStored ==
    \A i \in DOMAIN enrollments :
        /\ enrollments[i].student_id \in DOMAIN students
        /\ enrollments[i].course_id \in DOMAIN courses

\* an update-enrollment whose body named a student that is not stored was
\* answered 200 while the other server process had a request in progress
C24_Witness ==
    /\ last.op = "update_enrollment"
    /\ last.status = 200
    /\ last.req.data.student_id = Val(2)
    /\ 2 \notin DOMAIN students
    /\ last.req.id \in DOMAIN enrollments
    /\ \E w \in Workers : pend[w] # Idle

\* C25: a read-only request (root, list, get-by-id, list-by-student,
\* list-by-course), answered 200 or 404, leaves the tables of students,
\* courses and enrollments as they were, updated_at included.
ReadOps ==
    { "read_root", "read_students", "read_student", "read_courses",
      "read_course", "read_enrollments", "read_enrollment",
      "read_student_enrollments", "read_course_enrollments" }

C25_ReadsChangeNothing ==
    last.op \in ReadOps
    => /\ last.status \in {200, 404}
       /\ students = last.pre[1]
       /\ courses = last.pre[2]
       /\ enrollments = last.pre[3]

\* a get-by-id of a student was answered at a time later than the student's
\* updated_at, with an enrollment stored
C25_Witness ==
    /\ last.op = "read_student"
    /\ last.status = 200
    /\ students[last.req.id].updated_at < now
    /\ enrollments # EmptyTable

====
